---------------------------- MODULE Spec2Model ----------------------------
(***************************************************************************)
(* Model of example_06 of FastAPITutorials: the Product / Order / OrderItem *)
(* entities (domain/entities.py), the ProductRepository / OrderRepository  *)
(* persistence (infrastructure/repositories.py), the OrderService          *)
(* orchestration (application/services.py) and the UserService             *)
(* (services/user_service.py); of the UserService of example_05 (main.py)  *)
(* and of the in-memory store of example_01 (main.py).                     *)
(*                                                                         *)
(* Eleven specifications share the module:                                 *)
(*   ProductSpec    Product objects alone, driven by arbitrary method      *)
(*                  calls;                                                 *)
(*   PriceSpec      one Product, constructed and repriced with arbitrary   *)
(*                  arguments;                                             *)
(*   OrderSpec      an Order object with the products it is given, driven  *)
(*                  by arbitrary method calls;                             *)
(*   LineSpec       an Order whose product is repriced and restocked       *)
(*                  between the calls;                                     *)
(*   Spec           the persisted tables and the OrderService requests,    *)
(*                  each request a sequence of repository round trips,     *)
(*                  every repository write being its own commit;           *)
(*   ProductApiSpec the product routes, one action per request;            *)
(*   UowSpec        one UnitOfWork scope over the table "users";           *)
(*   SerialSpec     the OrderService requests of one worker, one request   *)
(*                  at a time, over tables that exist from the start;      *)
(*   UserSpec       the example_06 UserService requests, each a sequence   *)
(*                  of awaited repository calls, over the table "users"    *)
(*                  of an SQLite file;                                     *)
(*   DiSpec         the example_05 UserService, one action per request;    *)
(*   MemorySpec     the example_01 dicts and counters, one action per      *)
(*                  request.                                               *)
(*                                                                         *)
(* The services call the async repositories without await; the model takes *)
(* every repository call as run to completion, in program order.  The      *)
(* routes are sync functions, which the framework runs on a thread pool:   *)
(* requests interleave between repository calls.                           *)
(*                                                                         *)
(* Left out of the records: created_at / updated_at timestamps and         *)
(* Order.user_id, which no modelled rule reads.  Prices are floats: the    *)
(* model keeps the whole numbers a binary format of MantissaBits           *)
(* significant bits represents, and update_price computes its ratio in     *)
(* that format, rounding to nearest, ties to even.                         *)
(***************************************************************************)
EXTENDS Integers, Sequences, FiniteSets, TLC

VARIABLES
    e_products,   \* entity level: in-memory Product objects, by id
    e_order,      \* entity level: one in-memory Order object
    e_last,       \* entity level: the last method call and how it ended
    db_products,  \* Spec: table "products", by id (id = 0: no row)
    db_orders,    \* Spec: table "orders" with its order_items, by id
    req,          \* Spec: per worker, the request it is serving
    resp,         \* Spec: status code of the last response sent
    served,       \* Spec: number of order requests accepted so far
    stock0,       \* Spec: history, the quantity each product was created with
    sold,         \* Spec: history, per product the quantity that answered
                  \*       add_item_to_order requests reserved
    u_db,         \* UowSpec: the committed rows of table "users"
    u_session,    \* UowSpec: the UnitOfWork's session
    u_pc,         \* UowSpec: where the caller is relative to the scope
    u_exit,       \* UowSpec: the session calls the last __aexit__ made
    users,        \* user stores: the stored users, by id (id = 0: none)
    user_req,     \* UserSpec: per worker, the request it is serving
    db_lock,      \* UserSpec: the worker whose transaction has written
                  \*           and not yet ended (0: none)
    handled,      \* UserSpec: number of requests accepted so far
    answer,       \* user stores: status code and body of the last response
    items_db,     \* MemorySpec: the stored items, by id
    next_ids,     \* MemorySpec: the counters next_item_id, next_user_id
    issued        \* MemorySpec: history, the ids given to new records

vars == <<e_products, e_order, e_last,
         db_products, db_orders, req, resp, served, stock0, sold,
         u_db, u_session, u_pc, u_exit,
         users, user_req, db_lock, handled, answer, items_db, next_ids, issued>>
e_vars == <<e_products, e_order, e_last>>
s_vars == <<db_products, db_orders, req, resp, served, stock0, sold>>
u_vars == <<u_db, u_session, u_pc, u_exit>>
t_vars == <<users, user_req, db_lock, handled, answer, items_db, next_ids, issued>>

---------------------------------------------------------------------------
(* Bounds                                                                  *)

NumProducts == 2
NumUsers == 3
NumOrders == 2
NumWorkers == 2
MaxQty == 2
MaxStock == 3
MaxRequests == 3
\* items a run adds to the ones the in-memory store starts with
MaxNewItems == 1
\* significant bits the model's floating point keeps
MantissaBits == 4
\* Product._validate: a name has at least 3 characters
MinNameLen == 3
\* the items the in-memory store starts with (example_01, items_db)
InitialItems == 3

ProductIds == 1..NumProducts
OrderIds == 1..NumOrders
UserIds == 1..NumUsers
ItemIds == 1..(InitialItems + MaxNewItems)
Workers == 1..NumWorkers
Prices == {10, 15}
Statuses == {"pending", "confirmed", "cancelled", "delivered"}
\* quantities a caller may pass to an entity method (invalid ones included)
CallQuantities == (-1)..MaxQty
\* quantities AddItemToOrderDTO lets through (Field(gt=0))
DtoQuantities == 1..MaxQty

ProductName(id) == IF id = 1 THEN "Widget" ELSE "Gadget"
PriceOf(id) == IF id = 1 THEN 10 ELSE 15

---------------------------------------------------------------------------
(* Product                                                                 *)

NoProduct == [id |-> 0, name |-> "", price |-> 0, quantity |-> 0]

Product(id, name, price, quantity) ==
    [id |-> id, name |-> name, price |-> price, quantity |-> quantity]

is_in_stock(product) == product.quantity > 0

add_stock_accepts_zero(product, amount) ==
    IF amount < 0
    THEN [err |-> "ValueError", product |-> product]
    ELSE [err |-> "none",
          product |-> [product EXCEPT !.quantity = @ + amount]]

add_stock(product, amount) ==
    IF amount <= 0
    THEN [err |-> "ValueError", product |-> product]
    ELSE [err |-> "none",
          product |-> [product EXCEPT !.quantity = @ + amount]]

remove_stock_full_rejected(product, amount) ==
    IF amount <= 0
    THEN [err |-> "ValueError", product |-> product]
    ELSE IF product.quantity <= amount
    THEN [err |-> "ValueError", product |-> product]
    ELSE [err |-> "none",
          product |-> [product EXCEPT !.quantity = @ - amount]]

remove_stock(product, amount) ==
    IF amount <= 0
    THEN [err |-> "ValueError", product |-> product]
    ELSE IF product.quantity < amount
    THEN [err |-> "ValueError", product |-> product]
    ELSE [err |-> "none",
          product |-> [product EXCEPT !.quantity = @ - amount]]

validate_allows_zero_price(product) ==
    IF product.name = "" \/ Len(product.name) < MinNameLen
    THEN "ValueError"
    ELSE IF product.price < 0 THEN "ValueError"
    ELSE IF product.quantity < 0 THEN "ValueError"
    ELSE "none"

\* Product._validate, run by the constructor
validate(product) ==
    IF product.name = "" \/ Len(product.name) < MinNameLen
    THEN "ValueError"
    ELSE IF product.price <= 0 THEN "ValueError"
    ELSE IF product.quantity < 0 THEN "ValueError"
    ELSE "none"

---------------------------------------------------------------------------
(* Prices are Python floats: binary floating point, every operation rounded *)
(* to the nearest representable value, ties to the even mantissa.  The      *)
(* model keeps MantissaBits significant bits (Python: 53) and no exponent   *)
(* limit.  A value is a fraction num / den; a price is a whole number of    *)
(* price units that the format represents.                                  *)

Rat(num, den) == [num |-> num, den |-> den]

RatEq(x, y) == x.num * y.den = y.num * x.den
RatGt(x, y) == x.num * y.den > y.num * x.den

RECURSIVE Pow2(_)
Pow2(n) == IF n = 0 THEN 1 ELSE 2 * Pow2(n - 1)

Abs(n) == IF n < 0 THEN -n ELSE n

\* the largest price the model constructs
MaxPrice == Pow2(MantissaBits + 1)
\* binary places RoundPositive may have to shift a value by
MaxShift == 2 * MantissaBits

\* num / den > 0 rounded to MantissaBits significant bits: scale the value
\* into [2^(MantissaBits-1), 2^MantissaBits), round the scaled value to the
\* nearest integer, ties to even, and scale back
RoundPositive(num, den) ==
    LET lo == Pow2(MantissaBits - 1)
        hi == Pow2(MantissaBits)
        up == CHOOSE k \in 0..MaxShift : num * Pow2(k) >= lo * den
        down == CHOOSE j \in 0..MaxShift : num * Pow2(up) < hi * den * Pow2(j)
        n == num * Pow2(up)
        d == den * Pow2(down)
        m == n \div d
        r == n % d
        mantissa == IF 2 * r > d \/ (2 * r = d /\ m % 2 = 1)
                    THEN m + 1 ELSE m
    IN Rat(mantissa * Pow2(down), Pow2(up))

RoundToFloat(num, den) ==
    IF num = 0 THEN Rat(0, 1)
    ELSE IF num < 0
    THEN LET r == RoundPositive(-num, den) IN Rat(-r.num, r.den)
    ELSE RoundPositive(num, den)

FloatSub(x, y) == RoundToFloat(x.num * y.den - y.num * x.den, x.den * y.den)
FloatAbs(x) == Rat(Abs(x.num), x.den)
FloatDiv(x, y) == RoundToFloat(x.num * y.den, x.den * y.num)

\* the whole numbers the format represents
IsFloat(n) == RatEq(RoundToFloat(n, 1), Rat(n, 1))
FloatPrices == {n \in 1..MaxPrice : IsFloat(n)}
\* prices a caller may pass (invalid ones included)
CallPrices == {-1, 0} \cup FloatPrices

update_price(product, new_price) ==
    LET price_change_percent ==
            FloatDiv(FloatAbs(FloatSub(Rat(new_price, 1),
                                       Rat(product.price, 1))),
                     Rat(product.price, 1))
    IN IF new_price <= 0
       THEN [err |-> "ValueError", product |-> product]
       ELSE IF RatGt(price_change_percent, Rat(1, 2))
       THEN [err |-> "ValueError", product |-> product]
       ELSE [err |-> "none", product |-> [product EXCEPT !.price = new_price]]

---------------------------------------------------------------------------
(* OrderItem and Order                                                     *)

OrderItem(product_id, product_name, price, quantity) ==
    [product_id |-> product_id, product_name |-> product_name,
     price |-> price, quantity |-> quantity]

NoOrder == [id |-> 0, status |-> "", items |-> <<>>]

Order(id, status) == [id |-> id, status |-> status, items |-> <<>>]

HasItem(order, product_id) ==
    \E i \in 1..Len(order.items) : order.items[i].product_id = product_id

\* total quantity the order's items hold of a product
RECURSIVE SumQty(_, _)
SumQty(items, product_id) ==
    IF items = <<>> THEN 0
    ELSE (IF Head(items).product_id = product_id
          THEN Head(items).quantity ELSE 0)
         + SumQty(Tail(items), product_id)

QtyOf(order, product_id) == SumQty(order.items, product_id)

add_item_reserves_stock(order, product, quantity) ==
    IF quantity <= 0
    THEN [err |-> "ValueError", order |-> order, product |-> product]
    ELSE IF ~is_in_stock(product)
    THEN [err |-> "ValueError", order |-> order, product |-> product]
    ELSE IF product.quantity < quantity
    THEN [err |-> "ValueError", order |-> order, product |-> product]
    ELSE IF HasItem(order, product.id)
    THEN [err |-> "AttributeError", order |-> order, product |-> product]
    ELSE [err |-> "none",
          order |-> [order EXCEPT !.items =
                        Append(@, OrderItem(product.id, product.name,
                                            product.price, quantity))],
          product |-> [product EXCEPT !.quantity = @ - quantity]]

\* Order.add_item; the result holds the order and the product as the call
\* leaves them.  The merge branch assigns to OrderItem.quantity, a property
\* without a setter: the assignment raises AttributeError and the item list
\* is left as it was.
add_item(order, product, quantity) ==
    IF quantity <= 0
    THEN [err |-> "ValueError", order |-> order, product |-> product]
    ELSE IF ~is_in_stock(product)
    THEN [err |-> "ValueError", order |-> order, product |-> product]
    ELSE IF product.quantity < quantity
    THEN [err |-> "ValueError", order |-> order, product |-> product]
    ELSE IF HasItem(order, product.id)
    THEN [err |-> "AttributeError", order |-> order, product |-> product]
    ELSE [err |-> "none",
          order |-> [order EXCEPT !.items =
                        Append(@, OrderItem(product.id, product.name,
                                            product.price, quantity))],
          product |-> product]

remove_item_clears_order(order, product_id) ==
    [order EXCEPT !.items = <<>>]

remove_item(order, product_id) ==
    [order EXCEPT !.items =
        SelectSeq(@, LAMBDA item : item.product_id # product_id)]

\* OrderItem.subtotal.  Order prices are whole numbers, on which float
\* multiplication and addition are exact.
subtotal(item) == item.price * item.quantity

RECURSIVE SumSubtotal(_)
SumSubtotal(items) ==
    IF items = <<>> THEN 0
    ELSE subtotal(Head(items)) + SumSubtotal(Tail(items))

RECURSIVE SumPrice(_)
SumPrice(items) ==
    IF items = <<>> THEN 0 ELSE Head(items).price + SumPrice(Tail(items))

total_amount_ignores_quantity(order) == SumPrice(order.items)

\* Order.total_amount: recomputed from the items on every read
total_amount(order) == SumSubtotal(order.items)

confirm_any_status(order) ==
    IF order.items = <<>>
    THEN [err |-> "ValueError", order |-> order]
    ELSE [err |-> "none", order |-> [order EXCEPT !.status = "confirmed"]]

confirm_empty_allowed(order) ==
    IF order.status # "pending"
    THEN [err |-> "ValueError", order |-> order]
    ELSE [err |-> "none", order |-> [order EXCEPT !.status = "confirmed"]]

\* a variant of confirm that marks the order delivered
confirm_marks_delivered(order) ==
    IF order.status # "pending" \/ order.items = <<>>
    THEN [err |-> "ValueError", order |-> order]
    ELSE [err |-> "none", order |-> [order EXCEPT !.status = "delivered"]]

confirm(order) ==
    IF order.items = <<>>
    THEN [err |-> "ValueError", order |-> order]
    ELSE IF order.status # "pending"
    THEN [err |-> "ValueError", order |-> order]
    ELSE [err |-> "none", order |-> [order EXCEPT !.status = "confirmed"]]

cancel_only_delivered_rejected(order) ==
    IF order.status \in {"delivered"}
    THEN [err |-> "ValueError", order |-> order]
    ELSE [err |-> "none", order |-> [order EXCEPT !.status = "cancelled"]]

cancel(order) ==
    IF order.status \in {"delivered", "cancelled"}
    THEN [err |-> "ValueError", order |-> order]
    ELSE [err |-> "none", order |-> [order EXCEPT !.status = "cancelled"]]

---------------------------------------------------------------------------
(* ProductSpec and OrderSpec: method calls on in-memory entities           *)

Call(op, pid, arg, err) == [op |-> op, pid |-> pid, arg |-> arg, err |-> err]

\* a worker that serves no request
Idle ==
    [pc |-> "idle", order_id |-> 0, product_id |-> 0, quantity |-> 0,
     order |-> NoOrder, product |-> NoProduct, idx |-> 0]

s_idle ==
    /\ db_products = [p \in ProductIds |-> NoProduct]
    /\ db_orders = [o \in OrderIds |-> NoOrder]
    /\ req = [w \in Workers |-> Idle]
    /\ resp = 0
    /\ served = 0
    /\ stock0 = [p \in ProductIds |-> 0]
    /\ sold = [p \in ProductIds |-> 0]

\* no UnitOfWork scope has been entered
NoSession == [state |-> "none", rows |-> {}]

u_idle ==
    /\ u_db = {}
    /\ u_session = NoSession
    /\ u_pc = "outside"
    /\ u_exit = <<>>

\* a stored user: the columns the uniqueness rules read
UserRow(id, username, email) ==
    [id |-> id, username |-> username, email |-> email]

NoUser == UserRow(0, "", "")

\* a stored item of the in-memory store
ItemRow(id, name) == [id |-> id, name |-> name]

\* a request to UserService: kind, path id and the fields of its body
UserCall(pc, kind, user_id, username, email) ==
    [pc |-> pc, kind |-> kind, user_id |-> user_id,
     username |-> username, email |-> email]

\* a response: status code, the user in its body, the detail of an error
Answer(code, body, detail) ==
    [code |-> code, body |-> body, detail |-> detail]

\* no user store in use
t_idle ==
    /\ users = [i \in UserIds |-> NoUser]
    /\ user_req = [w \in Workers |-> UserCall("idle", "", 0, "", "")]
    /\ db_lock = 0
    /\ handled = 0
    /\ answer = Answer(0, NoUser, "")
    /\ items_db = [i \in ItemIds |-> ItemRow(0, "")]
    /\ next_ids = [item |-> 1, user |-> 1]
    /\ issued = [item |-> {}, user |-> {}]

\* ProductSpec starts from products constructed with any valid quantity
ProductInit ==
    /\ e_products \in [ProductIds -> [id : ProductIds, name : {"Widget", "Gadget"},
                                      price : Prices, quantity : 0..MaxStock]]
    /\ \A p \in ProductIds : e_products[p] =
            Product(p, ProductName(p), PriceOf(p), e_products[p].quantity)
    /\ e_order = Order(1, "pending")
    /\ e_last = Call("none", 0, 0, "none")
    /\ s_idle
    /\ u_idle
    /\ t_idle

\* OrderSpec starts from an empty order constructed with any status, and
\* products that all hold the same quantity
OrderInit ==
    /\ \E quantity \in 0..MaxStock :
         e_products = [p \in ProductIds |->
                          Product(p, ProductName(p), PriceOf(p), quantity)]
    /\ \E status \in Statuses : e_order = Order(1, status)
    /\ e_last = Call("none", 0, 0, "none")
    /\ s_idle
    /\ u_idle
    /\ t_idle

ProductAddStock(p, amount) ==
    LET r == add_stock(e_products[p], amount) IN
    /\ r.product.quantity <= MaxStock
    /\ e_products' = [e_products EXCEPT ![p] = r.product]
    /\ e_last' = Call("add_stock", p, amount, r.err)
    /\ UNCHANGED <<e_order, s_vars, u_vars, t_vars>>

ProductRemoveStock(p, amount) ==
    LET r == remove_stock(e_products[p], amount) IN
    /\ e_products' = [e_products EXCEPT ![p] = r.product]
    /\ e_last' = Call("remove_stock", p, amount, r.err)
    /\ UNCHANGED <<e_order, s_vars, u_vars, t_vars>>

OrderAddItem(p, quantity) ==
    LET r == add_item(e_order, e_products[p], quantity) IN
    /\ e_order' = r.order
    /\ e_products' = [e_products EXCEPT ![p] = r.product]
    /\ e_last' = Call("add_item", p, quantity, r.err)
    /\ UNCHANGED <<s_vars, u_vars, t_vars>>

OrderRemoveItem(p) ==
    /\ e_order' = remove_item(e_order, p)
    \* arg: how many items the call removed
    /\ e_last' = Call("remove_item", p,
                      Len(e_order.items) - Len(e_order'.items), "none")
    /\ UNCHANGED <<e_products, s_vars, u_vars, t_vars>>

OrderConfirm ==
    LET r == confirm(e_order) IN
    /\ e_order' = r.order
    /\ e_last' = Call("confirm", 0, 0, r.err)
    /\ UNCHANGED <<e_products, s_vars, u_vars, t_vars>>

OrderCancel ==
    LET r == cancel(e_order) IN
    /\ e_order' = r.order
    /\ e_last' = Call("cancel", 0, 0, r.err)
    /\ UNCHANGED <<e_products, s_vars, u_vars, t_vars>>

\* names a caller may pass to the Product constructor (invalid ones included)
CallNames == {"", "ab", "Widget"}

\* PriceSpec starts from one product constructed with any valid price and
\* quantity
PriceInit ==
    /\ \E price \in FloatPrices, quantity \in 0..MaxStock :
         e_products = [p \in ProductIds |->
                          IF p = 1
                          THEN Product(p, ProductName(p), price, quantity)
                          ELSE NoProduct]
    /\ e_order = Order(1, "pending")
    /\ e_last = Call("none", 0, 0, "none")
    /\ s_idle
    /\ u_idle
    /\ t_idle

\* Product(name, price, quantity): a rejected construction leaves the
\* caller with the object it had
ProductConstruct(p, name, price, quantity) ==
    LET product == Product(p, name, price, quantity)
        err == validate(product)
    IN /\ e_products' = IF err = "none"
                        THEN [e_products EXCEPT ![p] = product]
                        ELSE e_products
       /\ e_last' = Call("__init__", p, price, err)
       /\ UNCHANGED <<e_order, s_vars, u_vars, t_vars>>

\* update_price as it would act if order lines read the product's price
\* instead of holding their own
ProductUpdatePrice_live_item_price(p, new_price) ==
    LET r == update_price(e_products[p], new_price) IN
    /\ e_products' = [e_products EXCEPT ![p] = r.product]
    /\ e_order' = [e_order EXCEPT !.items =
            [i \in DOMAIN @ |->
                IF @[i].product_id = p
                THEN [@[i] EXCEPT !.price = r.product.price]
                ELSE @[i]]]
    /\ e_last' = Call("update_price", p, new_price, r.err)
    /\ UNCHANGED <<s_vars, u_vars, t_vars>>

ProductUpdatePrice(p, new_price) ==
    LET r == update_price(e_products[p], new_price) IN
    /\ e_products' = [e_products EXCEPT ![p] = r.product]
    /\ e_last' = Call("update_price", p, new_price, r.err)
    /\ UNCHANGED <<e_order, s_vars, u_vars, t_vars>>

PriceNext ==
    \/ \E name \in CallNames, price \in {-1, 0} \cup Prices,
          quantity \in (-1)..MaxStock : ProductConstruct(1, name, price, quantity)
    \/ \E new_price \in CallPrices : ProductUpdatePrice(1, new_price)
    \/ \E a \in CallQuantities : ProductAddStock(1, a)
    \/ \E a \in CallQuantities : ProductRemoveStock(1, a)

PriceSpec == PriceInit /\ [][PriceNext]_vars

\* prices LineSpec passes to update_price: a rejected one, the catalogue
\* prices (10 <-> 15 is a change of at most 50%) and one too far away
LinePrices == {0} \cup Prices \cup {MaxPrice}

\* LineSpec: an empty pending order and the one product its lines are
\* made from
LineInit ==
    /\ \E quantity \in 0..MaxStock :
         e_products = [p \in ProductIds |->
                          IF p = 1
                          THEN Product(p, ProductName(p), PriceOf(p), quantity)
                          ELSE NoProduct]
    /\ e_order = Order(1, "pending")
    /\ e_last = Call("none", 0, 0, "none")
    /\ s_idle
    /\ u_idle
    /\ t_idle

LineNext ==
    \/ \E q \in CallQuantities : OrderAddItem(1, q)
    \/ OrderRemoveItem(1)
    \/ \E new_price \in LinePrices : ProductUpdatePrice(1, new_price)
    \/ \E a \in CallQuantities : ProductAddStock(1, a)
    \/ \E a \in CallQuantities : ProductRemoveStock(1, a)

LineSpec == LineInit /\ [][LineNext]_vars

ProductNext ==
    \/ \E p \in ProductIds, a \in CallQuantities : ProductAddStock(p, a)
    \/ \E p \in ProductIds, a \in CallQuantities : ProductRemoveStock(p, a)

OrderNext ==
    \/ \E p \in ProductIds, q \in CallQuantities : OrderAddItem(p, q)
    \/ \E p \in ProductIds : OrderRemoveItem(p)
    \/ OrderConfirm
    \/ OrderCancel

ProductSpec == ProductInit /\ [][ProductNext]_vars

OrderSpec == OrderInit /\ [][OrderNext]_vars

---------------------------------------------------------------------------
(* Repositories: each add / update ends in its own commit                  *)

Max(S) == CHOOSE x \in S : \A y \in S : y <= x

\* the id the table gives the next inserted row
NextId(table) == 1 + Max({0} \cup {table[i].id : i \in DOMAIN table})

product_repo_get(table, product_id) == table[product_id]

product_repo_add(table, product) ==
    [table EXCEPT ![NextId(table)] =
        Product(NextId(table), product.name, product.price, product.quantity)]

product_repo_update(table, product) ==
    IF table[product.id].id = 0
    THEN [err |-> "ValueError", table |-> table]
    ELSE [err |-> "none",
          table |-> [table EXCEPT ![product.id] =
                        [@ EXCEPT !.name = product.name,
                                  !.price = product.price,
                                  !.quantity = product.quantity]]]

order_repo_get(table, order_id) == table[order_id]

order_repo_add(table, order) ==
    [table EXCEPT ![NextId(table)] =
        [id |-> NextId(table), status |-> order.status,
         items |-> order.items]]

order_repo_update(table, order) ==
    IF table[order.id].id = 0
    THEN [err |-> "ValueError", table |-> table]
    ELSE [err |-> "none",
          table |-> [table EXCEPT ![order.id] =
                        [@ EXCEPT !.status = order.status,
                                  !.items = order.items]]]

---------------------------------------------------------------------------
(* Spec: ProductService.create_product and the OrderService requests       *)

\* status code the order routes answer an exception with
StatusOf(err) == IF err = "ValueError" THEN 400 ELSE 500

\* the request of worker w ends and its response goes out
Finish(w, code) ==
    /\ req' = [req EXCEPT ![w] = Idle]
    /\ resp' = code

\* worker w goes on with its request
Continue(w, r) ==
    /\ req' = [req EXCEPT ![w] = r]
    /\ UNCHANGED resp

\* worker w accepts a new request
Accept(w) ==
    /\ req[w].pc = "idle"
    /\ served < MaxRequests
    /\ served' = served + 1

Init ==
    /\ s_idle
    /\ u_idle
    /\ t_idle
    /\ e_products = [p \in ProductIds |-> NoProduct]
    /\ e_order = NoOrder
    /\ e_last = Call("none", 0, 0, "none")

create_product(price, quantity) ==
    /\ NextId(db_products) \in ProductIds
    /\ db_products' = product_repo_add(db_products,
            Product(0, ProductName(NextId(db_products)), price, quantity))
    /\ stock0' = [stock0 EXCEPT ![NextId(db_products)] = quantity]
    /\ UNCHANGED <<db_orders, req, resp, served, sold, e_vars, u_vars, t_vars>>

create_order ==
    /\ NextId(db_orders) \in OrderIds
    /\ db_orders' = order_repo_add(db_orders, Order(0, "pending"))
    /\ UNCHANGED <<db_products, req, resp, served, stock0, sold, e_vars, u_vars, t_vars>>

\* add_item_to_order: order_repo.get
AddItem_GetOrder(w, order_id, product_id, quantity) ==
    /\ Accept(w)
    /\ LET order == order_repo_get(db_orders, order_id) IN
       IF order.id = 0
       THEN Finish(w, 404)
       ELSE Continue(w, [Idle EXCEPT !.pc = "add_get_product",
                                     !.order_id = order_id,
                                     !.product_id = product_id,
                                     !.quantity = quantity,
                                     !.order = order])
    /\ UNCHANGED <<db_products, db_orders, stock0, sold, e_vars, u_vars, t_vars>>

\* a variant of AddItem_GetProduct that takes the stock and persists it
\* before Order.add_item is asked
AddItem_GetProduct_reserves_first(w) ==
    /\ req[w].pc = "add_get_product"
    /\ LET product == product_repo_get(db_products, req[w].product_id)
           removed == remove_stock(product, req[w].quantity)
           added == add_item(req[w].order, product, req[w].quantity)
       IN IF product.id = 0
          THEN Finish(w, StatusOf("ValueError")) /\ UNCHANGED db_products
          ELSE IF removed.err # "none"
          THEN Finish(w, StatusOf(removed.err)) /\ UNCHANGED db_products
          ELSE /\ db_products' = product_repo_update(db_products,
                                                     removed.product).table
               /\ IF added.err # "none" THEN Finish(w, StatusOf(added.err))
                  ELSE Continue(w, [req[w] EXCEPT
                                        !.pc = "add_update_product",
                                        !.order = added.order,
                                        !.product = removed.product])
    /\ UNCHANGED <<db_orders, served, stock0, sold, e_vars, u_vars, t_vars>>

\* add_item_to_order: product_repo.get, Order.add_item, Product.remove_stock
AddItem_GetProduct(w) ==
    /\ req[w].pc = "add_get_product"
    /\ LET product == product_repo_get(db_products, req[w].product_id)
           added == add_item(req[w].order, product, req[w].quantity)
           removed == remove_stock(added.product, req[w].quantity)
       IN IF product.id = 0 THEN Finish(w, StatusOf("ValueError"))
          ELSE IF added.err # "none" THEN Finish(w, StatusOf(added.err))
          ELSE IF removed.err # "none" THEN Finish(w, StatusOf(removed.err))
          ELSE Continue(w, [req[w] EXCEPT !.pc = "add_update_product",
                                          !.order = added.order,
                                          !.product = removed.product])
    /\ UNCHANGED <<db_products, db_orders, served, stock0, sold, e_vars, u_vars, t_vars>>

\* add_item_to_order: product_repo.update
AddItem_UpdateProduct(w) ==
    /\ req[w].pc = "add_update_product"
    /\ LET r == product_repo_update(db_products, req[w].product) IN
       /\ db_products' = r.table
       /\ IF r.err # "none" THEN Finish(w, StatusOf(r.err))
          ELSE Continue(w, [req[w] EXCEPT !.pc = "add_update_order"])
    /\ UNCHANGED <<db_orders, served, stock0, sold, e_vars, u_vars, t_vars>>

\* add_item_to_order: order_repo.update
AddItem_UpdateOrder(w) ==
    /\ req[w].pc = "add_update_order"
    /\ LET r == order_repo_update(db_orders, req[w].order) IN
       /\ db_orders' = r.table
       /\ Finish(w, IF r.err # "none" THEN StatusOf(r.err) ELSE 200)
       /\ sold' = IF r.err # "none" THEN sold
                  ELSE [sold EXCEPT ![req[w].product_id] = @ + req[w].quantity]
    /\ UNCHANGED <<db_products, served, stock0, e_vars, u_vars, t_vars>>

\* confirm_order: order_repo.get, Order.confirm
Confirm_GetOrder(w, order_id) ==
    /\ Accept(w)
    /\ LET order == order_repo_get(db_orders, order_id)
           r == confirm(order)
       IN IF order.id = 0 THEN Finish(w, 404)
          ELSE IF r.err # "none" THEN Finish(w, StatusOf(r.err))
          ELSE Continue(w, [Idle EXCEPT !.pc = "confirm_update_order",
                                        !.order_id = order_id,
                                        !.order = r.order])
    /\ UNCHANGED <<db_products, db_orders, stock0, sold, e_vars, u_vars, t_vars>>

\* confirm_order: order_repo.update
Confirm_UpdateOrder(w) ==
    /\ req[w].pc = "confirm_update_order"
    /\ LET r == order_repo_update(db_orders, req[w].order) IN
       /\ db_orders' = r.table
       /\ Finish(w, IF r.err # "none" THEN StatusOf(r.err) ELSE 200)
    /\ UNCHANGED <<db_products, served, stock0, sold, e_vars, u_vars, t_vars>>

\* cancel_order: order_repo.get
Cancel_GetOrder(w, order_id) ==
    /\ Accept(w)
    /\ LET order == order_repo_get(db_orders, order_id) IN
       IF order.id = 0
       THEN Finish(w, 404)
       ELSE Continue(w, [Idle EXCEPT !.pc = IF order.items = <<>>
                                            THEN "cancel_update_order"
                                            ELSE "cancel_get_product",
                                     !.order_id = order_id,
                                     !.order = order,
                                     !.idx = 1])
    /\ UNCHANGED <<db_products, db_orders, stock0, sold, e_vars, u_vars, t_vars>>

\* cancel_order, loop body: product_repo.get, Product.add_stock
Cancel_GetProduct(w) ==
    /\ req[w].pc = "cancel_get_product"
    /\ LET item == req[w].order.items[req[w].idx]
           product == product_repo_get(db_products, item.product_id)
           r == add_stock(product, item.quantity)
       IN IF product.id = 0
          THEN Continue(w, [req[w] EXCEPT
                    !.idx = @ + 1,
                    !.pc = IF req[w].idx = Len(req[w].order.items)
                           THEN "cancel_update_order"
                           ELSE "cancel_get_product"])
          ELSE IF r.err # "none" THEN Finish(w, StatusOf(r.err))
          ELSE Continue(w, [req[w] EXCEPT !.pc = "cancel_update_product",
                                          !.product = r.product])
    /\ UNCHANGED <<db_products, db_orders, served, stock0, sold, e_vars, u_vars, t_vars>>

\* cancel_order, loop body: product_repo.update
Cancel_UpdateProduct(w) ==
    /\ req[w].pc = "cancel_update_product"
    /\ LET r == product_repo_update(db_products, req[w].product) IN
       /\ db_products' = r.table
       /\ IF r.err # "none" THEN Finish(w, StatusOf(r.err))
          ELSE Continue(w, [req[w] EXCEPT
                    !.idx = @ + 1,
                    !.product = NoProduct,
                    !.pc = IF req[w].idx = Len(req[w].order.items)
                           THEN "cancel_update_order"
                           ELSE "cancel_get_product"])
    /\ UNCHANGED <<db_orders, served, stock0, sold, e_vars, u_vars, t_vars>>

\* cancel_order: Order.cancel, order_repo.update
Cancel_UpdateOrder(w) ==
    /\ req[w].pc = "cancel_update_order"
    /\ LET c == cancel(req[w].order)
           r == order_repo_update(db_orders, c.order)
       IN IF c.err # "none"
          THEN /\ Finish(w, StatusOf(c.err))
               /\ UNCHANGED db_orders
          ELSE /\ db_orders' = r.table
               /\ Finish(w, IF r.err # "none" THEN StatusOf(r.err) ELSE 200)
    /\ UNCHANGED <<db_products, served, stock0, sold, e_vars, u_vars, t_vars>>

Next ==
    \/ \E price \in Prices, quantity \in 0..MaxStock :
         create_product(price, quantity)
    \/ create_order
    \/ \E w \in Workers, o \in OrderIds, p \in ProductIds,
          q \in DtoQuantities : AddItem_GetOrder(w, o, p, q)
    \/ \E w \in Workers : AddItem_GetProduct(w)
    \/ \E w \in Workers : AddItem_UpdateProduct(w)
    \/ \E w \in Workers : AddItem_UpdateOrder(w)
    \/ \E w \in Workers, o \in OrderIds : Confirm_GetOrder(w, o)
    \/ \E w \in Workers : Confirm_UpdateOrder(w)
    \/ \E w \in Workers, o \in OrderIds : Cancel_GetOrder(w, o)
    \/ \E w \in Workers : Cancel_GetProduct(w)
    \/ \E w \in Workers : Cancel_UpdateProduct(w)
    \/ \E w \in Workers : Cancel_UpdateOrder(w)

Spec == Init /\ [][Next]_vars

---------------------------------------------------------------------------
(* ProductApiSpec: the product routes, one action per request              *)

\* ProductUpdateDTO: a field left out of the request body is None
NoName == ""
NoValue == -1

ProductUpdateDTO(name, price, quantity) ==
    [name |-> name, price |-> price, quantity |-> quantity]

\* Field(None, min_length=3), Field(None, gt=0), Field(None, ge=0)
UpdateDtoValid(dto) ==
    /\ dto.name = NoName \/ Len(dto.name) >= MinNameLen
    /\ dto.price = NoValue \/ dto.price > 0
    /\ dto.quantity = NoValue \/ dto.quantity >= 0

\* ProductCreateDTO: Field(..., min_length=3), Field(..., gt=0),
\* Field(default=0, ge=0)
CreateDtoValid(name, price, quantity) ==
    /\ Len(name) >= MinNameLen
    /\ price > 0
    /\ quantity >= 0

\* request bodies the model sends (invalid ones included)
CreateNames == {"ab", "Widget"}
CreatePrices == {0} \cup Prices
CreateQuantities == {-1, 0, MaxStock}
UpdateNames == {NoName, "ab", "Gizmo"}
UpdatePrices == {NoValue, 0} \cup Prices \cup {MaxPrice}
UpdateQuantities == {NoValue, 0, MaxQty, MaxStock}
UpdateDtos ==
    {ProductUpdateDTO(name, price, quantity) :
        name \in UpdateNames, price \in UpdatePrices,
        quantity \in UpdateQuantities}

\* ProductService.update_product between product_repo.get and
\* product_repo.update: the entity methods applied to the loaded product
apply_update(product, dto) ==
    LET named == IF dto.name # NoName
                 THEN [product EXCEPT !.name = dto.name] ELSE product
        priced == IF dto.price # NoValue
                  THEN update_price(named, dto.price)
                  ELSE [err |-> "none", product |-> named]
        diff == dto.quantity - priced.product.quantity
    IN IF priced.err # "none" THEN priced
       ELSE IF dto.quantity = NoValue THEN priced
       ELSE IF diff > 0 THEN add_stock(priced.product, diff)
       ELSE IF diff < 0 THEN remove_stock(priced.product, Abs(diff))
       ELSE priced

\* status code a product route answers an outcome with: the product routes
\* catch no exception, the framework answers an escaped one with 500
ProductStatusOf(err, success) == IF err = "none" THEN success ELSE 500

\* POST /products/
CreateProduct(name, price, quantity) ==
    LET product == Product(0, name, price, quantity)
        err == validate(product)
    IN /\ IF ~CreateDtoValid(name, price, quantity)
          THEN resp' = 422 /\ UNCHANGED db_products
          ELSE IF err # "none"
          THEN resp' = ProductStatusOf(err, 201) /\ UNCHANGED db_products
          ELSE /\ NextId(db_products) \in ProductIds
               /\ db_products' = product_repo_add(db_products, product)
               /\ resp' = ProductStatusOf(err, 201)
       /\ UNCHANGED <<db_orders, req, served, stock0, sold, e_vars, u_vars, t_vars>>

\* GET /products/{product_id}
GetProduct(product_id) ==
    /\ resp' = IF product_repo_get(db_products, product_id).id = 0
               THEN 404 ELSE 200
    /\ UNCHANGED <<db_products, db_orders, req, served, stock0, sold, e_vars, u_vars, t_vars>>

\* a variant of UpdateProduct that saves the entity as the rejection left it
UpdateProduct_persists_rejected(product_id, dto) ==
    LET product == product_repo_get(db_products, product_id)
        r == apply_update(product, dto)
        u == product_repo_update(db_products, r.product)
    IN /\ IF ~UpdateDtoValid(dto)
          THEN resp' = 422 /\ UNCHANGED db_products
          ELSE IF product.id = 0
          THEN resp' = 404 /\ UNCHANGED db_products
          ELSE /\ db_products' = u.table
               /\ resp' = ProductStatusOf(r.err, 200)
       /\ UNCHANGED <<db_orders, req, served, stock0, sold, e_vars, u_vars, t_vars>>

\* PUT /products/{product_id}
UpdateProduct(product_id, dto) ==
    LET product == product_repo_get(db_products, product_id)
        r == apply_update(product, dto)
        u == product_repo_update(db_products, r.product)
    IN /\ IF ~UpdateDtoValid(dto)
          THEN resp' = 422 /\ UNCHANGED db_products
          ELSE IF product.id = 0
          THEN resp' = 404 /\ UNCHANGED db_products
          ELSE IF r.err # "none"
          THEN resp' = ProductStatusOf(r.err, 200) /\ UNCHANGED db_products
          ELSE /\ db_products' = u.table
               /\ resp' = ProductStatusOf(u.err, 200)
       /\ UNCHANGED <<db_orders, req, served, stock0, sold, e_vars, u_vars, t_vars>>

ProductApiNext ==
    \/ \E name \in CreateNames, price \in CreatePrices,
          quantity \in CreateQuantities : CreateProduct(name, price, quantity)
    \/ \E product_id \in ProductIds : GetProduct(product_id)
    \/ \E product_id \in ProductIds, dto \in UpdateDtos :
          UpdateProduct(product_id, dto)

ProductApiSpec == Init /\ [][ProductApiNext]_vars

---------------------------------------------------------------------------
(* UowSpec: one caller working through UnitOfWork scopes                    *)
(*                                                                         *)
(* The session is SQLAlchemy's AsyncSession made by async_session_maker    *)
(* (autocommit off): flushed changes are visible in its transaction only,  *)
(* commit() makes them the committed rows, rollback() drops them, and      *)
(* close() ends a transaction in progress by rolling it back.              *)

\* a unit of work: committed rows, session, session calls made on exit
Uow(db, session, calls) == [db |-> db, session |-> session, calls |-> calls]

\* async_session_maker()
new_session(db) == [state |-> "open", rows |-> db]

\* UnitOfWork.commit: session.commit()
uow_commit(u) == [u EXCEPT !.db = u.session.rows]

\* UnitOfWork.rollback: session.rollback()
uow_rollback(u) ==
    [u EXCEPT !.session.rows = u.db, !.calls = Append(@, "rollback")]

\* session.close()
session_close(u) ==
    [u EXCEPT !.session = [state |-> "closed", rows |-> u.db],
              !.calls = Append(@, "close")]

aexit_commits_pending(u, exc) ==
    session_close(IF exc THEN uow_rollback(u) ELSE uow_commit(u))

\* UnitOfWork.__aexit__(exc_type, ...): exc is exc_type is not None
aexit(u, exc) ==
    session_close(IF exc THEN uow_rollback(u) ELSE u)

\* async with UnitOfWork() as uow: __aenter__
UowEnter ==
    /\ u_pc = "outside"
    /\ u_session' = new_session(u_db)
    /\ u_pc' = "inside"
    /\ u_exit' = <<>>
    /\ UNCHANGED <<u_db, e_vars, s_vars, t_vars>>

\* uow.users.create(user): session.add, session.flush; the flush of a row
\* that exists raises IntegrityError
UowCreate(row) ==
    /\ u_pc = "inside"
    /\ IF row \in u_session.rows
       THEN u_pc' = "raising" /\ UNCHANGED u_session
       ELSE /\ u_session' = [u_session EXCEPT !.rows = @ \cup {row}]
            /\ UNCHANGED u_pc
    /\ UNCHANGED <<u_db, u_exit, e_vars, s_vars, t_vars>>

\* uow.users.delete(id): delete statement, session.flush
UowDelete(row) ==
    /\ u_pc = "inside"
    /\ u_session' = [u_session EXCEPT !.rows = @ \ {row}]
    /\ UNCHANGED <<u_db, u_pc, u_exit, e_vars, s_vars, t_vars>>

\* await uow.commit() inside the scope
UowCommit ==
    /\ u_pc = "inside"
    /\ u_db' = uow_commit(Uow(u_db, u_session, <<>>)).db
    /\ UNCHANGED <<u_session, u_pc, u_exit, e_vars, s_vars, t_vars>>

\* await uow.rollback() inside the scope
UowRollback ==
    /\ u_pc = "inside"
    /\ u_session' = uow_rollback(Uow(u_db, u_session, <<>>)).session
    /\ UNCHANGED <<u_db, u_pc, u_exit, e_vars, s_vars, t_vars>>

\* the body of the scope raises
UowRaise ==
    /\ u_pc = "inside"
    /\ u_pc' = "raising"
    /\ UNCHANGED <<u_db, u_session, u_exit, e_vars, s_vars, t_vars>>

\* the scope is left, by falling off its end or by an exception: __aexit__
UowExit ==
    /\ u_pc \in {"inside", "raising"}
    /\ LET u == aexit(Uow(u_db, u_session, <<>>), u_pc = "raising") IN
       /\ u_db' = u.db
       /\ u_session' = u.session
       /\ u_exit' = u.calls
    /\ u_pc' = "outside"
    /\ UNCHANGED <<e_vars, s_vars, t_vars>>

UowInit ==
    /\ s_idle
    /\ u_idle
    /\ t_idle
    /\ e_products = [p \in ProductIds |-> NoProduct]
    /\ e_order = NoOrder
    /\ e_last = Call("none", 0, 0, "none")

UowNext ==
    \/ UowEnter
    \/ \E row \in UserIds : UowCreate(row)
    \/ \E row \in UserIds : UowDelete(row)
    \/ UowCommit
    \/ UowRollback
    \/ UowRaise
    \/ UowExit

UowSpec == UowInit /\ [][UowNext]_vars

---------------------------------------------------------------------------
(* UserSpec: the example_06 UserService, each request in its own           *)
(* UnitOfWork                                                              *)
(*                                                                         *)
(* Every request opens its own session on the SQLite file.  A select reads *)
(* the committed rows.  The flush of an insert, update or delete starts    *)
(* the session's write transaction, which SQLite grants to one connection  *)
(* at a time and which checks the UNIQUE constraints of users.username and *)
(* users.email; commit() publishes the write and ends the transaction.     *)
(* The routes catch nothing: HTTPException keeps its status code, any      *)
(* other exception is answered 500.                                        *)

Usernames == {"alice", "bob"}
Emails == {"alice@example.com", "bob@example.com"}

\* the id an insert gives the new row
NextUserId(table) == 1 + Max({0} \cup {table[i].id : i \in DOMAIN table})

\* UserRepository.username_exists(username, exclude_id)
username_exists(table, username, exclude_id) ==
    \E i \in DOMAIN table :
        /\ table[i].id # 0
        /\ table[i].username = username
        /\ table[i].id # exclude_id

\* UserRepository.email_exists(email, exclude_id)
email_exists(table, email, exclude_id) ==
    \E i \in DOMAIN table :
        /\ table[i].id # 0
        /\ table[i].email = email
        /\ table[i].id # exclude_id

\* the row a request writes: the new row of a create, the changed row of an
\* update (a field left out of the body keeps its value)
written_row(table, call) ==
    IF call.kind = "create"
    THEN UserRow(NextUserId(table), call.username, call.email)
    ELSE UserRow(call.user_id,
                 IF call.username = NoName
                 THEN table[call.user_id].username ELSE call.username,
                 IF call.email = NoName
                 THEN table[call.user_id].email ELSE call.email)

\* the flush of the request's statement violates a UNIQUE constraint of the
\* table users (IntegrityError)
violates_unique(table, call) ==
    /\ call.kind \in {"create", "update"}
    /\ call.kind = "update" => table[call.user_id].id # 0
    /\ LET row == written_row(table, call) IN
       \/ username_exists(table, row.username, row.id)
       \/ email_exists(table, row.email, row.id)

\* the table once the request's statement is committed
written(table, call) ==
    IF call.kind = "delete"
    THEN [table EXCEPT ![call.user_id] = NoUser]
    ELSE IF call.kind = "update" /\ table[call.user_id].id = 0
    THEN table
    ELSE [table EXCEPT ![written_row(table, call).id] =
                           written_row(table, call)]

\* the request of worker w ends: __aexit__ (rollback if an exception left
\* the scope, close) and the response
UserFinish(w, code, body, detail) ==
    /\ user_req' = [user_req EXCEPT ![w] = UserCall("idle", "", 0, "", "")]
    /\ answer' = Answer(code, body, detail)
    /\ db_lock' = IF db_lock = w THEN 0 ELSE db_lock

\* a request arrives: async with UnitOfWork() as uow
UserAccept(w, kind, user_id, username, email) ==
    /\ user_req[w].pc = "idle"
    /\ handled < MaxRequests
    /\ handled' = handled + 1
    /\ user_req' = [user_req EXCEPT ![w] =
           UserCall(IF kind = "create" THEN "check_username" ELSE "lookup",
                    kind, user_id, username, email)]
    /\ UNCHANGED <<users, db_lock, answer, items_db, next_ids, issued,
                   e_vars, s_vars, u_vars>>

\* update_user: uow.users.get_by_id; delete_user: uow.users.exists
UserLookup(w) ==
    /\ user_req[w].pc = "lookup"
    /\ IF users[user_req[w].user_id].id = 0
       THEN UserFinish(w, 404, NoUser, "not found")
       ELSE /\ user_req' = [user_req EXCEPT ![w].pc =
                   IF user_req[w].kind = "delete"
                   THEN "flush" ELSE "check_username"]
            /\ UNCHANGED <<answer, db_lock>>
    /\ UNCHANGED <<users, handled, items_db, next_ids, issued,
                   e_vars, s_vars, u_vars>>

\* create_user, update_user: uow.users.username_exists (update_user only
\* for a body that carries a username, and leaving out its own row)
UserCheckUsername(w) ==
    /\ user_req[w].pc = "check_username"
    /\ IF /\ user_req[w].username # NoName
          /\ username_exists(users, user_req[w].username, user_req[w].user_id)
       THEN UserFinish(w, 400, NoUser, "username already exists")
       ELSE /\ user_req' = [user_req EXCEPT ![w].pc = "check_email"]
            /\ UNCHANGED <<answer, db_lock>>
    /\ UNCHANGED <<users, handled, items_db, next_ids, issued,
                   e_vars, s_vars, u_vars>>

\* create_user, update_user: uow.users.email_exists
UserCheckEmail(w) ==
    /\ user_req[w].pc = "check_email"
    /\ IF /\ user_req[w].email # NoName
          /\ email_exists(users, user_req[w].email, user_req[w].user_id)
       THEN UserFinish(w, 400, NoUser, "email already exists")
       ELSE /\ user_req' = [user_req EXCEPT ![w].pc = "flush"]
            /\ UNCHANGED <<answer, db_lock>>
    /\ UNCHANGED <<users, handled, items_db, next_ids, issued,
                   e_vars, s_vars, u_vars>>

\* uow.users.create / update / delete: the statement and session.flush().
\* While another connection's write transaction is open the statement
\* waits, and fails with OperationalError (database is locked) when the
\* wait times out.
UserFlush(w) ==
    /\ user_req[w].pc = "flush"
    /\ user_req[w].kind = "create" => NextUserId(users) \in UserIds
    /\ IF db_lock # 0
       THEN UserFinish(w, 500, NoUser, "")
       ELSE IF violates_unique(users, user_req[w])
       THEN UserFinish(w, 500, NoUser, "")
       ELSE /\ db_lock' = w
            /\ user_req' = [user_req EXCEPT ![w].pc = "commit"]
            /\ UNCHANGED answer
    /\ UNCHANGED <<users, handled, items_db, next_ids, issued,
                   e_vars, s_vars, u_vars>>

\* uow.commit() and the response; update_user validates the row its
\* statement returned, which is None when no row had the id
UserCommit(w) ==
    /\ user_req[w].pc = "commit"
    /\ users' = written(users, user_req[w])
    /\ IF user_req[w].kind = "delete"
       THEN UserFinish(w, 204, NoUser, "")
       ELSE IF user_req[w].kind = "update" /\ users[user_req[w].user_id].id = 0
       THEN UserFinish(w, 500, NoUser, "")
       ELSE UserFinish(w, IF user_req[w].kind = "create" THEN 201 ELSE 200,
                       written_row(users, user_req[w]), "")
    /\ UNCHANGED <<handled, items_db, next_ids, issued,
                   e_vars, s_vars, u_vars>>

UserInit ==
    /\ s_idle
    /\ u_idle
    /\ t_idle
    /\ e_products = [p \in ProductIds |-> NoProduct]
    /\ e_order = NoOrder
    /\ e_last = Call("none", 0, 0, "none")

UserNext ==
    \/ \E w \in Workers, username \in Usernames, email \in Emails :
         UserAccept(w, "create", 0, username, email)
    \/ \E w \in Workers, user_id \in UserIds,
          username \in Usernames \cup {NoName},
          email \in Emails \cup {NoName} :
         UserAccept(w, "update", user_id, username, email)
    \/ \E w \in Workers, user_id \in UserIds :
         UserAccept(w, "delete", user_id, NoName, NoName)
    \/ \E w \in Workers : UserLookup(w)
    \/ \E w \in Workers : UserCheckUsername(w)
    \/ \E w \in Workers : UserCheckEmail(w)
    \/ \E w \in Workers : UserFlush(w)
    \/ \E w \in Workers : UserCommit(w)

UserSpec == UserInit /\ [][UserNext]_vars

---------------------------------------------------------------------------
(* DiSpec: the example_05 UserService over its UserRepository, one action  *)
(* per request                                                             *)
(*                                                                         *)
(* The table users has UNIQUE constraints on username and on email; the    *)
(* service checks the username only.  A commit that violates a constraint  *)
(* raises IntegrityError, which nothing catches: the request is answered   *)
(* 500 and the session's changes are dropped.                              *)

\* UserRepository.get_by_id: the row, None when there is none
get_by_id(table, user_id) == table[user_id]

\* UserService.create_user
DiCreateUser(username, email) ==
    LET existing_user == \E i \in UserIds :
            users[i].id # 0 /\ users[i].username = username
        email_taken == \E i \in UserIds :
            users[i].id # 0 /\ users[i].email = email
        user == UserRow(NextUserId(users), username, email)
    IN /\ IF existing_user
          THEN /\ answer' = Answer(400, NoUser, "username already exists")
               /\ UNCHANGED users
          ELSE IF email_taken
          THEN /\ answer' = Answer(500, NoUser, "")
               /\ UNCHANGED users
          ELSE /\ user.id \in UserIds
               /\ users' = [users EXCEPT ![user.id] = user]
               /\ answer' = Answer(201, user, "")
       /\ UNCHANGED <<user_req, db_lock, handled, items_db, next_ids, issued,
                      e_vars, s_vars, u_vars>>

\* UserService.get_user
DiGetUser(user_id) ==
    LET user == get_by_id(users, user_id) IN
    /\ answer' = IF user.id = 0 THEN Answer(404, NoUser, "not found")
                 ELSE Answer(200, user, "")
    /\ UNCHANGED <<users, user_req, db_lock, handled, items_db, next_ids,
                   issued, e_vars, s_vars, u_vars>>

\* a variant of DiUpdateUser that inserts the row when the id has none
DiUpdateUser_upserts(user_id, email) ==
    /\ users' = [users EXCEPT ![user_id] = UserRow(user_id, "", email)]
    /\ answer' = Answer(200, users'[user_id], "")
    /\ UNCHANGED <<user_req, db_lock, handled, items_db, next_ids, issued,
                   e_vars, s_vars, u_vars>>

\* UserService.update_user: get_user, UserRepository.update (UserUpdate
\* carries no username; an email left out is None)
DiUpdateUser(user_id, email) ==
    LET user == get_by_id(users, user_id)
        updated == IF email = NoName THEN user
                   ELSE [user EXCEPT !.email = email]
        email_taken == \E i \in UserIds :
            /\ users[i].id \notin {0, user_id}
            /\ users[i].email = updated.email
    IN /\ IF user.id = 0
          THEN /\ answer' = Answer(404, NoUser, "not found")
               /\ UNCHANGED users
          ELSE IF email_taken
          THEN /\ answer' = Answer(500, NoUser, "")
               /\ UNCHANGED users
          ELSE /\ users' = [users EXCEPT ![user_id] = updated]
               /\ answer' = Answer(200, updated, "")
       /\ UNCHANGED <<user_req, db_lock, handled, items_db, next_ids, issued,
                      e_vars, s_vars, u_vars>>

\* UserService.delete_user: get_user, UserRepository.delete
DiDeleteUser(user_id) ==
    LET user == get_by_id(users, user_id) IN
    /\ IF user.id = 0
       THEN /\ answer' = Answer(404, NoUser, "not found")
            /\ UNCHANGED users
       ELSE /\ users' = [users EXCEPT ![user_id] = NoUser]
            /\ answer' = Answer(204, NoUser, "")
    /\ UNCHANGED <<user_req, db_lock, handled, items_db, next_ids, issued,
                   e_vars, s_vars, u_vars>>

DiNext ==
    \/ \E username \in Usernames, email \in Emails :
         DiCreateUser(username, email)
    \/ \E user_id \in UserIds : DiGetUser(user_id)
    \/ \E user_id \in UserIds, email \in Emails \cup {NoName} :
         DiUpdateUser(user_id, email)
    \/ \E user_id \in UserIds : DiDeleteUser(user_id)

\* the tables as the lifespan handler creates them: empty
DiSpec == UserInit /\ [][DiNext]_vars

---------------------------------------------------------------------------
(* MemorySpec: the example_01 in-memory store, one action per request      *)
(*                                                                         *)
(* items_db and users_db are module-level dicts, next_item_id and          *)
(* next_user_id module-level counters.  The handlers are coroutines that   *)
(* never await: each runs to its end before the event loop starts          *)
(* another.  Left out: the fields no rule reads (description, price,       *)
(* category, in_stock, full_name, age) and the handlers that only read.    *)

ItemNames == {"Laptop", "T-Shirt"}

\* the module as imported: items 1..InitialItems, the user alice,
\* next_item_id = InitialItems + 1, next_user_id = 2
MemInit ==
    /\ items_db = [i \in ItemIds |->
          IF i > InitialItems THEN ItemRow(0, "")
          ELSE ItemRow(i, IF i = 2 THEN "T-Shirt" ELSE "Laptop")]
    /\ users = [i \in UserIds |->
          IF i = 1 THEN UserRow(1, "alice", "alice@example.com") ELSE NoUser]
    /\ next_ids = [item |-> InitialItems + 1, user |-> 2]
    /\ issued = [item |-> 1..InitialItems, user |-> {1}]
    /\ answer = Answer(0, NoUser, "")
    /\ user_req = [w \in Workers |-> UserCall("idle", "", 0, "", "")]
    /\ db_lock = 0
    /\ handled = 0
    /\ s_idle
    /\ u_idle
    /\ e_products = [p \in ProductIds |-> NoProduct]
    /\ e_order = NoOrder
    /\ e_last = Call("none", 0, 0, "none")

\* POST /items
MemCreateItem(name) ==
    /\ next_ids.item \in ItemIds
    /\ items_db' = [items_db EXCEPT ![next_ids.item] =
                       ItemRow(next_ids.item, name)]
    /\ next_ids' = [next_ids EXCEPT !.item = @ + 1]
    /\ issued' = [issued EXCEPT !.item = @ \cup {next_ids.item}]
    /\ answer' = Answer(201, items_db'[next_ids.item], "")
    /\ UNCHANGED <<users, user_req, db_lock, handled, e_vars, s_vars, u_vars>>

\* the duplicate loop of create_user and update_user: users_db is walked in
\* insertion order, which is key order since keys only grow, and the first
\* record that has the username or the email decides the detail
Duplicate(exclude_id, username, email) ==
    LET hits == {i \in UserIds \ {exclude_id} :
                   /\ users[i].id # 0
                   /\ (users[i].username = username \/ users[i].email = email)}
        first == CHOOSE i \in hits : \A j \in hits : i <= j
    IN IF hits = {} THEN ""
       ELSE IF users[first].username = username
       THEN "username already exists"
       ELSE "email already registered"

\* a variant of MemCreateUser that fills the lowest free key
MemCreateUser_reuses_id(username, email) ==
    LET id == CHOOSE i \in UserIds :
                  users[i].id = 0 /\ \A j \in 1..(i - 1) : users[j].id # 0
    IN /\ \E i \in UserIds : users[i].id = 0
       /\ Duplicate(0, username, email) = ""
       /\ users' = [users EXCEPT ![id] = UserRow(id, username, email)]
       /\ issued' = [issued EXCEPT !.user = @ \cup {id}]
       /\ answer' = Answer(201, users'[id], "")
       /\ UNCHANGED <<next_ids, items_db, user_req, db_lock, handled,
                      e_vars, s_vars, u_vars>>

\* POST /users
MemCreateUser(username, email) ==
    LET id == next_ids.user IN
    /\ IF Duplicate(0, username, email) # ""
       THEN /\ answer' = Answer(400, NoUser, Duplicate(0, username, email))
            /\ UNCHANGED <<users, next_ids, issued>>
       ELSE /\ id \in UserIds
            /\ users' = [users EXCEPT ![id] = UserRow(id, username, email)]
            /\ next_ids' = [next_ids EXCEPT !.user = @ + 1]
            /\ issued' = [issued EXCEPT !.user = @ \cup {id}]
            /\ answer' = Answer(201, users'[id], "")
    /\ UNCHANGED <<items_db, user_req, db_lock, handled, e_vars, s_vars, u_vars>>

\* PUT /items/{item_id}
MemUpdateItem(item_id, name) ==
    /\ IF items_db[item_id].id = 0
       THEN /\ answer' = Answer(404, NoUser, "not found")
            /\ UNCHANGED items_db
       ELSE /\ items_db' = [items_db EXCEPT ![item_id] = ItemRow(item_id, name)]
            /\ answer' = Answer(200, items_db'[item_id], "")
    /\ UNCHANGED <<users, next_ids, issued, user_req, db_lock, handled,
                   e_vars, s_vars, u_vars>>

\* PUT /users/{user_id}
MemUpdateUser(user_id, username, email) ==
    /\ IF users[user_id].id = 0
       THEN /\ answer' = Answer(404, NoUser, "not found")
            /\ UNCHANGED users
       ELSE IF Duplicate(user_id, username, email) # ""
       THEN /\ answer' = Answer(400, NoUser, Duplicate(user_id, username, email))
            /\ UNCHANGED users
       ELSE /\ users' = [users EXCEPT ![user_id] =
                            UserRow(user_id, username, email)]
            /\ answer' = Answer(200, users'[user_id], "")
    /\ UNCHANGED <<items_db, next_ids, issued, user_req, db_lock, handled,
                   e_vars, s_vars, u_vars>>

\* DELETE /items/{item_id}
MemDeleteItem(item_id) ==
    /\ IF items_db[item_id].id = 0
       THEN /\ answer' = Answer(404, NoUser, "not found")
            /\ UNCHANGED items_db
       ELSE /\ items_db' = [items_db EXCEPT ![item_id] = ItemRow(0, "")]
            /\ answer' = Answer(204, NoUser, "")
    /\ UNCHANGED <<users, next_ids, issued, user_req, db_lock, handled,
                   e_vars, s_vars, u_vars>>

\* DELETE /users/{user_id}
MemDeleteUser(user_id) ==
    /\ IF users[user_id].id = 0
       THEN /\ answer' = Answer(404, NoUser, "not found")
            /\ UNCHANGED users
       ELSE /\ users' = [users EXCEPT ![user_id] = NoUser]
            /\ answer' = Answer(204, NoUser, "")
    /\ UNCHANGED <<items_db, next_ids, issued, user_req, db_lock, handled,
                   e_vars, s_vars, u_vars>>

MemNext ==
    \/ \E name \in ItemNames : MemCreateItem(name)
    \/ \E username \in Usernames, email \in Emails :
         MemCreateUser(username, email)
    \/ \E item_id \in ItemIds, name \in ItemNames :
         MemUpdateItem(item_id, name)
    \/ \E user_id \in UserIds, username \in Usernames, email \in Emails :
         MemUpdateUser(user_id, username, email)
    \/ \E item_id \in ItemIds : MemDeleteItem(item_id)
    \/ \E user_id \in UserIds : MemDeleteUser(user_id)

MemorySpec == MemInit /\ [][MemNext]_vars

---------------------------------------------------------------------------
(* Service-level properties                                                *)

\* persisted stock of a product (0 while it has no row)
StockOf(p) == db_products[p].quantity

Quiescent == \A w \in Workers : req[w].pc = "idle"

AddItemPcs == {"add_get_product", "add_update_product", "add_update_order"}
CancelPcs ==
    {"cancel_get_product", "cancel_update_product", "cancel_update_order"}

\* worker w takes this step
Steps(w) == req'[w] # req[w]

---------------------------------------------------------------------------
(* Entity-level properties                                                 *)

AllowedStatusChanges ==
    {<<"pending", "confirmed">>, <<"pending", "cancelled">>,
     <<"confirmed", "cancelled">>}

\* C5: over any sequence of calls on an Order the only status changes are
\* pending -> confirmed, pending -> cancelled and confirmed -> cancelled; an
\* order that has left pending never returns to pending; confirm never
\* succeeds on an order that is confirmed, cancelled or delivered.
C5_StatusTransitions ==
    [][/\ (e_order'.status # e_order.status
            => <<e_order.status, e_order'.status>> \in AllowedStatusChanges)
       /\ (e_order.status # "pending" => e_order'.status # "pending")
       /\ (OrderConfirm /\ e_last'.err = "none"
            => e_order.status = "pending")]_vars

\* C5 witness: confirm was called on an already confirmed order and failed.
C5_Witness ==
    /\ e_last.op = "confirm"
    /\ e_last.err = "ValueError"
    /\ e_order.status = "confirmed"
    /\ e_order.items # <<>>

\* C6: Order.confirm succeeds iff the order has at least one item and its
\* status is pending; on success the status becomes confirmed and the items
\* are unchanged; on failure ValueError is raised and status and items are
\* unchanged.
C6_ConfirmIff ==
    [][OrderConfirm =>
        LET ok == e_order.items # <<>> /\ e_order.status = "pending" IN
        /\ (e_last'.err = "none") <=> ok
        /\ ok => /\ e_order'.status = "confirmed"
                 /\ e_order'.items = e_order.items
        /\ ~ok => /\ e_last'.err = "ValueError"
                  /\ e_order' = e_order]_vars

\* C6 witness: confirm succeeded on an order holding an item.
C6_Witness ==
    /\ e_last.op = "confirm"
    /\ e_last.err = "none"
    /\ e_order.status = "confirmed"
    /\ Len(e_order.items) >= 1

\* C7: Order.cancel succeeds from pending or confirmed and sets the status
\* to cancelled; from delivered or cancelled it raises ValueError and leaves
\* the status unchanged; once cancelled, no later call changes the status.
C7_CancelTerminal ==
    [][/\ OrderCancel =>
            IF e_order.status \in {"pending", "confirmed"}
            THEN e_last'.err = "none" /\ e_order'.status = "cancelled"
            ELSE /\ e_last'.err = "ValueError"
                 /\ e_order'.status = e_order.status
       /\ e_order.status = "cancelled" => e_order'.status = "cancelled"]_vars

\* C7 witness: cancel was called on a cancelled order and was rejected.
C7_Witness ==
    /\ e_last.op = "cancel"
    /\ e_last.err = "ValueError"
    /\ e_order.status = "cancelled"

\* C8: adding a product the order already holds merges into that product's
\* single line item, whose quantity becomes the sum of the added quantities.
C8_MergeSameProduct ==
    [][\A p \in ProductIds, q \in CallQuantities :
        (/\ OrderAddItem(p, q)
         /\ 0 < q /\ q <= e_products[p].quantity
         /\ HasItem(e_order, p))
        => /\ e_last'.err = "none"
           /\ QtyOf(e_order', p) = QtyOf(e_order, p) + q
           /\ Len(e_order'.items) = Len(e_order.items)]_vars

\* C9: Order.add_item(product, quantity) succeeds iff
\* 0 < quantity <= product.quantity; when it fails the item list is
\* unchanged.
C9_AddItemIff ==
    [][\A p \in ProductIds, q \in CallQuantities :
        OrderAddItem(p, q) =>
            /\ (e_last'.err = "none")
                 <=> (0 < q /\ q <= e_products[p].quantity)
            /\ e_last'.err # "none" => e_order'.items = e_order.items]_vars

\* C10: Product.remove_stock(a) on quantity q succeeds iff 0 < a <= q and
\* then the quantity is exactly q - a; otherwise ValueError is raised and
\* the quantity is unchanged; removing the whole stock leaves quantity 0 and
\* is_in_stock false.
C10_RemoveStockIff ==
    [][\A p \in ProductIds, a \in CallQuantities :
        ProductRemoveStock(p, a) =>
            LET q == e_products[p].quantity
                ok == 0 < a /\ a <= q
            IN /\ (e_last'.err = "none") <=> ok
               /\ ok => e_products'[p].quantity = q - a
               /\ ~ok => /\ e_last'.err = "ValueError"
                         /\ e_products'[p].quantity = q
               /\ (ok /\ a = q) => /\ e_products'[p].quantity = 0
                                   /\ ~is_in_stock(e_products'[p])]_vars

\* C10 witness: the entire stock of a product was removed.
C10_Witness ==
    /\ e_last.op = "remove_stock"
    /\ e_last.err = "none"
    /\ e_last.arg > 0
    /\ e_products[e_last.pid].quantity = 0

---------------------------------------------------------------------------
(* Product price and invariants                                            *)

\* C11: Product.update_price(new_price) on a product with price > 0
\* succeeds and sets the price to new_price whenever
\* |new_price - price| / price <= 0.5, the boundary of exactly 50% included,
\* and fails leaving the price unchanged whenever it is > 0.5; a new price
\* <= 0 is always rejected.
C11_UpdatePriceRule ==
    [][e_last'.op = "update_price" =>
        LET price == e_products[1].price
            new_price == e_last'.arg
            within == /\ new_price > 0
                      /\ 2 * Abs(new_price - price) <= price
        IN /\ within => /\ e_last'.err = "none"
                        /\ e_products'[1].price = new_price
           /\ ~within => /\ e_last'.err = "ValueError"
                         /\ e_products'[1].price = price]_vars

---------------------------------------------------------------------------
(* Order totals and line items                                             *)

\* price * quantity summed over the first n items
RECURSIVE ItemsValue(_, _)
ItemsValue(items, n) ==
    IF n = 0 THEN 0
    ELSE items[n].price * items[n].quantity + ItemsValue(items, n - 1)

\* the items of the order that are of one product
ItemsOf(order, product_id) ==
    SelectSeq(order.items, LAMBDA item : item.product_id = product_id)

\* C12: Order.total_amount always equals the sum of price * quantity over
\* the order's current items, after any sequence of add_item, remove_item,
\* confirm and cancel calls: it is 0 for an empty order, a successful
\* add_item raises it by price * quantity, a rejected one leaves it,
\* remove_item lowers it by what the removed items were worth, confirm and
\* cancel leave it.
C12_TotalAmount ==
    [][/\ total_amount(e_order') =
            ItemsValue(e_order'.items, Len(e_order'.items))
       /\ e_order'.items = <<>> => total_amount(e_order') = 0
       /\ \A p \in ProductIds, q \in CallQuantities :
            OrderAddItem(p, q) =>
                total_amount(e_order') = total_amount(e_order)
                    + (IF e_last'.err = "none"
                       THEN e_products[p].price * q ELSE 0)
       /\ \A p \in ProductIds :
            OrderRemoveItem(p) =>
                total_amount(e_order') = total_amount(e_order)
                    - ItemsValue(ItemsOf(e_order, p), Len(ItemsOf(e_order, p)))
       /\ (OrderConfirm \/ OrderCancel) =>
            total_amount(e_order') = total_amount(e_order)]_vars

\* C12 witness: an order of two lines, one of quantity 2, was cancelled and
\* its total is that of the two lines.
C12_Witness ==
    /\ e_last.op = "cancel"
    /\ e_last.err = "none"
    /\ Len(e_order.items) = 2
    /\ \E i \in 1..2 : e_order.items[i].quantity = 2
    /\ total_amount(e_order) =
         e_order.items[1].price * e_order.items[1].quantity
         + e_order.items[2].price * e_order.items[2].quantity

ProductOps == {"update_price", "add_stock", "remove_stock"}

\* C13: the price recorded in an order line is a snapshot: once add_item
\* has created an OrderItem for a product, no later Product.update_price,
\* nor any other Product operation, changes that item's product_id,
\* product_name or price, nor the order's total_amount.
C13_PriceSnapshot ==
    [][e_last'.op \in ProductOps =>
        /\ Len(e_order'.items) = Len(e_order.items)
        /\ \A i \in 1..Len(e_order.items) :
              /\ e_order'.items[i].product_id = e_order.items[i].product_id
              /\ e_order'.items[i].product_name = e_order.items[i].product_name
              /\ e_order'.items[i].price = e_order.items[i].price
        /\ total_amount(e_order') = total_amount(e_order)]_vars

\* C13 witness: the product's price was changed after a line was made from
\* it, and the line still holds the price it was made with.
C13_Witness ==
    /\ e_last.op = "update_price"
    /\ e_last.err = "none"
    /\ HasItem(e_order, 1)
    /\ e_order.items[1].price = PriceOf(1)
    /\ e_products[1].price # PriceOf(1)
    /\ total_amount(e_order) = PriceOf(1) * e_order.items[1].quantity

\* C14: Order.add_item never changes the Product it is given: the product's
\* quantity and price are the same after the call as before, whether the
\* call succeeds or fails (the stock decrement is left to the service's
\* separate Product.remove_stock call).
C14_AddItemLeavesProduct ==
    [][\A p \in ProductIds, q \in CallQuantities :
        OrderAddItem(p, q) =>
            /\ e_products'[p].quantity = e_products[p].quantity
            /\ e_products'[p].price = e_products[p].price
            /\ e_products' = e_products]_vars

\* C14 witness: add_item took a product's whole stock into the order and
\* the product still holds it.
C14_Witness ==
    /\ e_last.op = "add_item"
    /\ e_last.err = "none"
    /\ e_last.arg = MaxQty
    /\ QtyOf(e_order, e_last.pid) = MaxQty
    /\ e_products[e_last.pid].quantity = MaxQty

C16_AddStock ==
    [][\A p \in ProductIds, a \in CallQuantities :
        ProductAddStock(p, a) =>
            IF a <= 0
            THEN /\ e_last'.err = "ValueError"
                 /\ e_products'[p].quantity = e_products[p].quantity
            ELSE /\ e_last'.err = "none"
                 /\ e_products'[p].quantity = e_products[p].quantity + a
                 /\ e_products'[p].price = e_products[p].price]_vars

\* C16 witness: add_stock(MaxQty) filled a product up to MaxStock.
C16_Witness ==
    /\ e_last.op = "add_stock"
    /\ e_last.err = "none"
    /\ e_last.arg = MaxQty
    /\ e_products[e_last.pid].quantity = MaxStock
    /\ e_products[e_last.pid].price = PriceOf(e_last.pid)

\* C17: Order.remove_item(product_id) removes the line item with that
\* product id if present and leaves every other item, the order status and
\* all Product stock unchanged; when no item matches it is a no-op, so
\* calling it twice has the same effect as calling it once.
C17_RemoveItem ==
    [][\A p \in ProductIds :
        OrderRemoveItem(p) =>
            /\ ~HasItem(e_order', p)
            /\ \A other \in ProductIds \ {p} :
                  ItemsOf(e_order', other) = ItemsOf(e_order, other)
            /\ Len(e_order'.items) =
                  Len(e_order.items) - Len(ItemsOf(e_order, p))
            /\ e_order'.status = e_order.status
            /\ e_products' = e_products
            /\ ~HasItem(e_order, p) => e_order' = e_order
            /\ remove_item(e_order', p) = e_order']_vars

\* C17 witness: remove_item took one line out of an order of two.
C17_Witness ==
    /\ e_last.op = "remove_item"
    /\ e_last.arg = 1
    /\ Len(e_order.items) = 1
    /\ e_order.items[1].product_id # e_last.pid

---------------------------------------------------------------------------
(* Responses of the routes                                                 *)

ClientErrors == 400..499

---------------------------------------------------------------------------
(* Order lifecycle                                                         *)

---------------------------------------------------------------------------
(* UnitOfWork scopes                                                       *)

---------------------------------------------------------------------------
(* Stock conservation                                                      *)

\* quantity of product p held in items of the non-cancelled orders among
\* the persisted orders with ids in S
RECURSIVE HeldIn(_, _)
HeldIn(S, p) ==
    IF S = {} THEN 0
    ELSE LET o == CHOOSE x \in S : TRUE
         IN (IF db_orders[o].status = "cancelled" THEN 0
             ELSE QtyOf(db_orders[o], p))
            + HeldIn(S \ {o}, p)

HeldQty(p) == HeldIn(OrderIds, p)

---------------------------------------------------------------------------
(* SerialSpec: the requests of Spec served one at a time                   *)

\* the worker that serves every request
SerialWorker == 1

\* the requests find every product id but the last with a row, all created
\* with one price each and a common quantity, and every order id but the
\* last with an empty pending order
SerialInit ==
    /\ \E quantity \in 0..MaxStock :
         /\ db_products = [p \in ProductIds |->
                IF p < NumProducts
                THEN Product(p, ProductName(p), PriceOf(p), quantity)
                ELSE NoProduct]
         /\ stock0 = [p \in ProductIds |->
                IF p < NumProducts THEN quantity ELSE 0]
    /\ db_orders = [o \in OrderIds |->
           IF o < NumOrders THEN Order(o, "pending") ELSE NoOrder]
    /\ req = [w \in Workers |-> Idle]
    /\ resp = 0
    /\ served = 0
    /\ sold = [p \in ProductIds |-> 0]
    /\ u_idle
    /\ t_idle
    /\ e_products = [p \in ProductIds |-> NoProduct]
    /\ e_order = NoOrder
    /\ e_last = Call("none", 0, 0, "none")

SerialNext ==
    \/ \E o \in OrderIds, p \in ProductIds, q \in DtoQuantities :
         AddItem_GetOrder(SerialWorker, o, p, q)
    \/ AddItem_GetProduct(SerialWorker)
    \/ AddItem_UpdateProduct(SerialWorker)
    \/ AddItem_UpdateOrder(SerialWorker)
    \/ \E o \in OrderIds : Confirm_GetOrder(SerialWorker, o)
    \/ Confirm_UpdateOrder(SerialWorker)
    \/ \E o \in OrderIds : Cancel_GetOrder(SerialWorker, o)
    \/ Cancel_GetProduct(SerialWorker)
    \/ Cancel_UpdateProduct(SerialWorker)
    \/ Cancel_UpdateOrder(SerialWorker)

SerialSpec == SerialInit /\ [][SerialNext]_vars

---------------------------------------------------------------------------
(* Rejected add_item_to_order requests                                     *)

---------------------------------------------------------------------------
(* ProductService.update_product                                           *)

---------------------------------------------------------------------------
(* Statuses of the orders OrderService creates                             *)

---------------------------------------------------------------------------
(* Uniqueness of usernames and emails                                      *)

\* no two stored users share a username, no two share an email
UniqueUsers ==
    \A i, j \in UserIds :
        (i # j /\ users[i].id # 0 /\ users[j].id # 0)
        => /\ users[i].username # users[j].username
           /\ users[i].email # users[j].email

\* C21: whatever create_user, update_user and delete_user requests are
\* served, in whatever interleaving, no two persisted users share a username
\* or an email, and a create or update whose write would introduce a
\* duplicate is answered 400 and persists nothing.
C21_UniqueUsers ==
    [][/\ UniqueUsers'
       /\ \A w \in Workers :
            (/\ user_req[w].pc \in {"check_username", "check_email", "flush"}
             /\ user_req'[w] # user_req[w]
             /\ violates_unique(users, user_req[w]))
            => /\ user_req'[w].pc = "idle" => answer'.code = 400
               /\ users' = users]_vars

---------------------------------------------------------------------------
(* The example_05 UserService                                              *)

\* C22: create_user with the username of a stored user is answered 400
\* with a detail saying the username already exists and leaves the stored
\* users unchanged; with a username not in use it stores exactly one new
\* user, with the given username and email and an id no stored user has.
C22_CreateUser ==
    [][\A username \in Usernames, email \in Emails :
        DiCreateUser(username, email)
        => IF \E i \in UserIds :
                 users[i].id # 0 /\ users[i].username = username
           THEN /\ answer'.code = 400
                /\ answer'.detail = "username already exists"
                /\ users' = users
           ELSE \E id \in UserIds :
                /\ users[id].id = 0
                /\ users' = [users EXCEPT ![id] =
                                 UserRow(id, username, email)]]_vars

\* C23: get_user, update_user and delete_user on an id that is not stored
\* are answered 404 and leave the stored users unchanged; get_user on a
\* stored id returns that user.
C23_NotFound ==
    [][\A user_id \in UserIds :
        /\ (/\ users[user_id].id = 0
            /\ \/ DiGetUser(user_id)
               \/ DiDeleteUser(user_id)
               \/ \E email \in Emails \cup {NoName} :
                    DiUpdateUser(user_id, email))
           => /\ answer'.code = 404
              /\ users' = users
        /\ (users[user_id].id # 0 /\ DiGetUser(user_id))
           => /\ answer'.code = 200
              /\ answer'.body = users[user_id]
              /\ users' = users]_vars

\* C23 witness: user 1 has been deleted, user 2 is stored, and a request
\* for an id that is not stored was answered 404.
C23_Witness ==
    /\ answer.code = 404
    /\ users[1].id = 0
    /\ users[2].id = 2

---------------------------------------------------------------------------
(* The example_01 in-memory store                                          *)

\* C30: after any sequence of create, update and delete requests no two
\* users of users_db share a username or an email, every stored record's id
\* is its key, and the id a create gives a new item or user was never given
\* before, whatever was deleted in between.
C30_MemoryStore ==
    [][/\ UniqueUsers'
       /\ \A i \in UserIds : users'[i].id \in {0, i}
       /\ \A i \in ItemIds : items_db'[i].id \in {0, i}
       /\ \A i \in UserIds :
            (users[i].id = 0 /\ users'[i].id # 0) => i \notin issued.user
       /\ \A i \in ItemIds :
            (items_db[i].id = 0 /\ items_db'[i].id # 0) => i \notin issued.item
       /\ issued.user \subseteq issued'.user
       /\ issued.item \subseteq issued'.item
       /\ \A i \in UserIds : users'[i].id # 0 => i \in issued'.user
       /\ \A i \in ItemIds : items_db'[i].id # 0 => i \in issued'.item]_vars

\* C30 witness: users 1 and 2 have been deleted and the user created after
\* that has the id 3; item 1 has been deleted and the new item has the key
\* after the initial ones.
C30_Witness ==
    /\ users[1].id = 0
    /\ users[2].id = 0
    /\ users[3].id = 3
    /\ issued.user = {1, 2, 3}
    /\ items_db[1].id = 0
    /\ items_db[InitialItems + 1].id = InitialItems + 1

=============================================================================
